---------------------------- MODULE Spec2Model ----------------------------
(***************************************************************************)
(* Telegram -> Langflow relay bot (tg-flowise-bot).                        *)
(*                                                                         *)
(* The repository holds several versions of one program.  Three of their   *)
(* message handlers are modelled, selected by the variable `variant`:      *)
(*   "index"    src/index.js          id command, test command, allow-list,*)
(*                                    trigger, busy gate with reset timer  *)
(*   "part_002" src/unnamed/part_002  test command, trigger (with \b),     *)
(*                                    busy gate without timer              *)
(*   "part_000" src/unnamed/part_000  no trigger, no busy gate             *)
(*                                                                         *)
(* A message text is a sequence of characters.  A character is a string:   *)
(* an ASCII character stands for itself, a Cyrillic letter is written as   *)
(* its code point ("U+0447" is the small letter che), and "/start" is the  *)
(* bot_command entity /start at offset 0.                                  *)
(*                                                                         *)
(* A handler is followed from the arrival of its update to its return.     *)
(* When it returns, its context is dropped: what stays of it in h is the   *)
(* way it ended, its chat and the state of its timer.                      *)
(***************************************************************************)
EXTENDS Integers, Sequences, FiniteSets, TLC

VARIABLES
    variant,        \* which version of the program runs
    ALLOWED_CHATS,  \* access.js: set of chat ids
    ALLOWED_USERS,  \* access.js: set of user ids
    busyByChat,     \* Map chatId -> boolean (a function on the keys present)
    h,              \* one record per update received: its handler's state
    raw,            \* the text under classification (SpecClassify)
    tail,           \* the number of characters typed after the start of raw
    cls,            \* <<what the handler did with raw>>, once run (SpecClassify)
    err,            \* the errors under translation (SpecError)
    data,           \* the response under extraction (SpecExtract)
    out             \* what the translation, or the extraction, returned

vars == <<variant, ALLOWED_CHATS, ALLOWED_USERS, busyByChat, h, raw, tail, cls, err, data, out>>

-----------------------------------------------------------------------------
(* Bounds *)

MaxMsgs == 2
MaxTail == 3
MaxSections == 2
MaxBurst == 3
MaxEntries == 2

-----------------------------------------------------------------------------
(* Characters *)

che == "U+0447"
a_ == "U+0430"
te == "U+0442"
ka == "U+043A"
er == "U+0440"
i_ == "U+0456"
sha == "U+0448"
CHE == "U+0427"
A_ == "U+0410"
TE == "U+0422"
y_ == "U+0438"

\* String.prototype.toLowerCase on one character.
ToLower(c) ==
    CASE c = CHE -> che
      [] c = A_ -> a_
      [] c = TE -> te
      [] c = "I" -> "i"
      [] c = "D" -> "d"
      [] c = "F" -> "f"
      [] OTHER -> c

\* \s of a JavaScript regular expression, and what trim() removes.
IsSpace(c) == c \in {" ", "\n"}

\* \w of a JavaScript regular expression: ASCII letters, digits and _ only.
IsWordChar(c) == c \in {"f", "i", "d", "x", "I", "D", "F", "7", "_"}

\* [\s,.:;!?-] : the separators of index.js.
IsSep(c) == IsSpace(c) \/ c \in {",", ".", ":", ";", "!", "?", "-"}

\* [\s,:-] : the separators of part_002.
IsOldSep(c) == IsSpace(c) \/ c \in {",", ":", "-"}

\* (?:chat|krish), lower case.
TriggerWords == {<<che, a_, te>>, <<ka, er, i_, sha>>}

-----------------------------------------------------------------------------
(* Strings *)

Drop(s, k) == SubSeq(s, k + 1, Len(s))

RECURSIVE LeadingSpaces(_)
LeadingSpaces(s) ==
    IF s # <<>> /\ IsSpace(Head(s)) THEN 1 + LeadingSpaces(Tail(s)) ELSE 0

RECURSIVE TrailingSpaces(_)
TrailingSpaces(s) ==
    IF s # <<>> /\ IsSpace(s[Len(s)])
    THEN 1 + TrailingSpaces(SubSeq(s, 1, Len(s) - 1))
    ELSE 0

\* String.prototype.trim
Trim(s) ==
    LET t == Drop(s, LeadingSpaces(s))
    IN  SubSeq(t, 1, Len(t) - TrailingSpaces(t))

ToLowerCase(s) == [k \in 1..Len(s) |-> ToLower(s[k])]

\* Case-insensitive match of word w in s at offset p (0-based).
WordAt(s, p, w) ==
    /\ Len(s) >= p + Len(w)
    /\ \A k \in 1..Len(w) : ToLower(s[p + k]) = w[k]

RECURSIVE LeadingSeps(_)
LeadingSeps(s) ==
    IF s # <<>> /\ IsSep(Head(s)) THEN 1 + LeadingSeps(Tail(s)) ELSE 0

RECURSIVE LeadingOldSeps(_)
LeadingOldSeps(s) ==
    IF s # <<>> /\ IsOldSep(Head(s)) THEN 1 + LeadingOldSeps(Tail(s)) ELSE 0

-----------------------------------------------------------------------------
(* Trigger *)

NoMatch == 0 - 1

\* ^\s*(?:chat|krish) : the offset just after the trigger word, or NoMatch.
TriggerEnd(s) ==
    LET p == LeadingSpaces(s)
    IN  IF \E w \in TriggerWords : WordAt(s, p, w)
        THEN p + Len(CHOOSE w \in TriggerWords : WordAt(s, p, w))
        ELSE NoMatch

\* (?=[\s,.:;!?-]|$) at offset e.
Lookahead(s, e) == e = Len(s) \/ IsSep(s[e + 1])

\* \b at offset e: exactly one of the characters around it is a \w character.
WordBoundary(s, e) ==
    (e >= 1 /\ IsWordChar(s[e])) # (e < Len(s) /\ IsWordChar(s[e + 1]))

\* Mutant: the trigger word may be followed by anything.
TRIGGER_RE_NoLookahead(s) == TriggerEnd(s)

\* index.js  /^\s*(?:chat|krish)(?=[\s,.:;!?-]|$)/iu : the length matched.
TRIGGER_RE(s) ==
    LET e == TriggerEnd(s)
    IN  IF e # NoMatch /\ Lookahead(s, e) THEN e ELSE NoMatch

\* part_002  /^\s*(chat|krish)\b[\s,:-]*/iu : the length matched.
OLD_TRIGGER_RE(s) ==
    LET e == TriggerEnd(s)
    IN  IF e # NoMatch /\ WordBoundary(s, e)
        THEN e + LeadingOldSeps(Drop(s, e))
        ELSE NoMatch

\* Mutant: the separators after the trigger word are kept.
cleaned_KeepSeps(s) ==
    LET m == TRIGGER_RE(s)
    IN  Trim(IF m = NoMatch THEN s ELSE Drop(s, m))

\* index.js: raw.replace(TRIGGER_RE, '').replace(/^[\s,.:;!?-]+/, '').trim()
cleaned(s) ==
    LET m == TRIGGER_RE(s)
        r == IF m = NoMatch THEN s ELSE Drop(s, m)
    IN  Trim(Drop(r, LeadingSeps(r)))

\* part_002: raw.replace(TRIGGER_RE, '').trim()
old_cleaned(s) ==
    LET m == OLD_TRIGGER_RE(s)
    IN  Trim(IF m = NoMatch THEN s ELSE Drop(s, m))

\* bot.start: the update is the command /start.
IsStart(s) == s # <<>> /\ s[1] = "/start"

\* Mutant: the text is compared as it came.
IsIdCommandExact(s) == s = <<"i", "d">>

\* index.js: text.trim().toLowerCase() === 'id'
IsIdCommand(s) == ToLowerCase(Trim(s)) = <<"i", "d">>

\* text === 'f'
IsTestCommand(s) == s = <<"f">>

-----------------------------------------------------------------------------
(* Inputs *)

Variants == {"index", "part_002", "part_000"}
Chats == {"c1", "c2"}
Users == {"u1", "u2"}

\* The texts the updates of the bot's state machine carry.
TQuery == <<che, a_, te, " ", "x">>
TUpper == <<" ", CHE, A_, TE, ",", " ", "x", " ">>
TBare == <<che, a_, te, ",">>
TGlued == <<che, a_, te, "x">>
TPlain == <<"x">>
TId == <<" ", "I", "d">>
TTest == <<"f">>
TStart == <<"/start">>
Texts == {TQuery, TUpper, TBare, TGlued, TPlain, TId, TTest, TStart}

\* What the Langflow call can come back with: a response with a text in it, a
\* response extractAnswer finds no text in, or an error.
CallResults == {"text", "blank", "error"}

-----------------------------------------------------------------------------
(* busyByChat *)

\* busyByChat.get(chatId), as the condition of an if: undefined is falsy.
BusyGet(busy, c) == c \in DOMAIN busy /\ busy[c]

\* Mutant: one flag for all chats: set writes every key of the map.
BusySetAll(busy, c, v) == [x \in DOMAIN busy \cup {c} |-> v]

\* busyByChat.set(chatId, v)
BusySet(busy, c, v) ==
    [x \in DOMAIN busy \cup {c} |-> IF x = c THEN v ELSE busy[x]]

\* Mutant: the gate never finds the chat busy.
BusyGateOff(busy, c) == FALSE

\* if (busyByChat.get(chatId)) { ...busy reply...; return; }
BusyGate(busy, c) == BusyGet(busy, c)

\* Mutant: with both lists empty everybody is allowed.
isAllowedOpen(c, u) ==
    \/ ALLOWED_CHATS = {} /\ ALLOWED_USERS = {}
    \/ c \in ALLOWED_CHATS \/ u \in ALLOWED_USERS

\* Mutant: both lists must contain their identifier.
isAllowedBoth(c, u) == c \in ALLOWED_CHATS /\ u \in ALLOWED_USERS

\* index.js: ALLOWED_CHATS.has(chatId) || ALLOWED_USERS.has(userId)
isAllowed(c, u) == c \in ALLOWED_CHATS \/ u \in ALLOWED_USERS

-----------------------------------------------------------------------------
(* Handlers *)

Reply(kind, to, body) == [kind |-> kind, to |-> to, body |-> body, st |-> "pending"]

\* Mutant: the payload carries no session of its chat.
PayloadNoSession(c, q) == [session_id |-> "-", input_value |-> q]

\* The payload of axios.post.
Payload(c, q) == [session_id |-> c, input_value |-> q]

NoReq == [session_id |-> "-", input_value |-> <<>>]

\* route: the branch the handler took; pc: where it is; req: the request in
\* flight; ncalls: the requests it has posted; replies: the replies it has sent
\* since it started; delivered: how many of its replies were delivered.
Handler(c, route, pc, timer, req, ncalls, replies, delivered) ==
    [chat |-> c, route |-> route, pc |-> pc, timer |-> timer, req |-> req,
     ncalls |-> ncalls, replies |-> replies, delivered |-> delivered]

\* A handler that returns without a reply.
Silent(c, route) == Handler(c, route, "done", "none", NoReq, 0, <<>>, 0)

\* A handler that awaits one ctx.reply and returns.
Replying(c, route, to, body) ==
    Handler(c, route, "reply", "none", NoReq, 0, <<Reply(route, to, body)>>, 0)

\* A handler that has posted to Langflow and awaits the response.
Calling(c, timer, q) ==
    Handler(c, "dispatch", "call", timer, Payload(c, q), 1, <<>>, 0)

\* index.js: bot.start and the three bot.on(message('text')) handlers, run
\* from the update's arrival to the first await.
IndexHandler(id, c, u, t) ==
    IF IsStart(t) THEN Replying(c, "start", 0, "greeting")
    ELSE IF IsIdCommand(t) THEN Replying(c, "id", 0, <<c, u>>)
    ELSE IF IsTestCommand(t) THEN Replying(c, "f", 0, "OK (f)")
    ELSE IF TRIGGER_RE(t) = NoMatch THEN Silent(c, "ignored")
    ELSE IF ~isAllowed(c, u) THEN Replying(c, "denied", 0, "denied")
    ELSE IF cleaned(t) = <<>> THEN Silent(c, "empty")
    ELSE IF BusyGate(busyByChat, c) THEN Replying(c, "busy", id, "busy")
    ELSE Calling(c, "armed", cleaned(t))

\* part_002: bot.start, bot.hears('f') and bot.hears(TRIGGER_RE).
Part002Handler(id, c, u, t) ==
    IF IsStart(t) THEN Replying(c, "start", 0, "greeting")
    ELSE IF IsTestCommand(t) THEN Replying(c, "f", 0, "OK (f)")
    ELSE IF OLD_TRIGGER_RE(t) = NoMatch THEN Silent(c, "ignored")
    ELSE IF BusyGate(busyByChat, c) THEN Replying(c, "busy", 0, "busy")
    ELSE IF old_cleaned(t) = <<>> THEN Silent(c, "empty")
    ELSE Calling(c, "none", old_cleaned(t))

\* part_000: bot.start, and bot.on('text'), which first awaits sendChatAction;
\* the text is kept in req for the request that follows.
Part000Handler(id, c, u, t) ==
    IF IsStart(t) THEN Replying(c, "start", 0, "greeting")
    ELSE Handler(c, "dispatch", "typing", "none", Payload(c, t), 0, <<>>, 0)

HandleUpdate(id, c, u, t) ==
    CASE variant = "index" -> IndexHandler(id, c, u, t)
      [] variant = "part_002" -> Part002Handler(id, c, u, t)
      [] variant = "part_000" -> Part000Handler(id, c, u, t)

\* Mutant: the handler that passes the gate does not set the flag.
AcquireNothing(busy, c) == busy

\* busyByChat.set(chatId, true) of the handler that passes the gate.
Acquire(busy, c) == BusySet(busy, c, TRUE)

\* The finally block: busyByChat.set(chatId, false).
Release(busy, c) == BusySet(busy, c, FALSE)

HasBusyGate == variant \in {"index", "part_002"}

Live == {"typing", "call", "reply", "replyAnswer", "replyErr"}

\* What stays of a handler that has returned (pc "done") or thrown ("threw").
Returned(hd, pc, timer, delivered) ==
    Handler(hd.chat, hd.route, pc, timer, NoReq, hd.ncalls, <<>>, delivered)

\* The handler of an update runs to its first await or to its end.
Handle(c, u, t) ==
    /\ LET hd == HandleUpdate(Len(h) + 1, c, u, t)
       IN  /\ h' = Append(h, hd)
           /\ busyByChat' = IF hd.pc = "call" /\ HasBusyGate
                            THEN Acquire(busyByChat, c)
                            ELSE busyByChat
    /\ UNCHANGED <<variant, ALLOWED_CHATS, ALLOWED_USERS, raw, tail, cls, err, data, out>>

\* An update arrives and its handler runs to its first await or to its end.
Receive(c, u, t) == Len(h) < MaxMsgs /\ Handle(c, u, t)

\* part_000: try { await ctx.sendChatAction('typing') } catch {} returns either
\* way, and the handler posts to Langflow.
TypingDone(m) ==
    /\ m \in 1..Len(h)
    /\ h[m].pc = "typing"
    /\ h' = [h EXCEPT ![m].pc = "call", ![m].ncalls = @ + 1]
    /\ UNCHANGED <<variant, ALLOWED_CHATS, ALLOWED_USERS, busyByChat, raw, tail, cls, err, data, out>>

\* Mutant: no reply carries reply_to_message_id.
AnswerReplyUnaddressed(m, res) ==
    CASE res = "text" -> Reply("answer", 0, "text")
      [] res = "blank" -> Reply("empty", 0, "empty answer")
      [] res = "error" -> Reply("error", 0, "apology")

\* The reply a handler sends for the response it got.
AnswerReply(m, res) ==
    CASE res = "text" -> Reply("answer", m, "text")
      [] res = "blank" ->
            Reply("empty", IF variant = "part_000" THEN 0 ELSE m, "empty answer")
      [] res = "error" ->
            Reply("error", IF variant = "index" THEN m ELSE 0, "apology")

\* Mutant: the catch block posts the request again.
CatchCallsRetry(n) == n + 1

\* The requests posted by the catch block: none.
CatchCalls(n) == n

\* Mutant: the flag is released as soon as axios.post settles.
AfterCallReleases(busy, hd) == Release(busy, hd.chat)

\* Between the settling of axios.post and the ctx.reply that follows, in try
\* as in catch, the handler does not touch the map.
AfterCall(busy, hd) == busy

\* axios.post returns or throws: the handler replies with the answer, or its
\* catch block replies with the apology.
CallReturns(m, res) ==
    /\ m \in 1..Len(h)
    /\ h[m].pc = "call"
    /\ h' = [h EXCEPT ![m].pc = IF res = "error" THEN "replyErr" ELSE "replyAnswer",
                      ![m].req = NoReq,
                      ![m].ncalls = IF res = "error" THEN CatchCalls(@) ELSE @,
                      ![m].replies = Append(@, AnswerReply(m, res))]
    /\ busyByChat' = AfterCall(busyByChat, h[m])
    /\ UNCHANGED <<variant, ALLOWED_CHATS, ALLOWED_USERS, raw, tail, cls, err, data, out>>

\* Mutant: the apology is sent after the answer whether or not it was delivered.
AfterReplyAlwaysCatch(pc, ok) ==
    CASE pc = "reply" -> IF ok THEN "done" ELSE "threw"
      [] pc = "replyAnswer" -> "replyErr"
      [] pc = "replyErr" -> IF ok THEN "done" ELSE "threw"

\* Where a handler goes when the reply it awaits is delivered (ok) or fails:
\* the reply of the try block is followed by the finally block, or, when it
\* throws, by the catch block.
AfterReply(pc, ok) ==
    CASE pc = "reply" -> IF ok THEN "done" ELSE "threw"
      [] pc = "replyAnswer" -> IF ok THEN "done" ELSE "replyErr"
      [] pc = "replyErr" -> IF ok THEN "done" ELSE "threw"

Settled(replies, ok) ==
    [replies EXCEPT ![Len(replies)].st = IF ok THEN "ok" ELSE "failed"]

\* Mutant: the flag is released on the success path only, not in a finally.
FinallyMissing(busy, hd) == busy

\* The finally block of a handler that passed the gate.
Finally(busy, hd) ==
    IF HasBusyGate /\ hd.route = "dispatch" THEN Release(busy, hd.chat) ELSE busy

\* if (resetTimer) clearTimeout(resetTimer)
ClearTimeout(timer) == IF timer = "armed" THEN "cleared" ELSE timer

\* The ctx.reply a handler awaits is delivered or fails.
ReplyDone(m, ok) ==
    /\ m \in 1..Len(h)
    /\ h[m].pc \in {"reply", "replyAnswer", "replyErr"}
    /\ LET next == AfterReply(h[m].pc, ok)
           sent == Settled(h[m].replies, ok)
           n == h[m].delivered + (IF ok THEN 1 ELSE 0)
       IN  IF next = "replyErr"
           THEN /\ h' = [h EXCEPT ![m].pc = next,
                                  ![m].ncalls = CatchCalls(@),
                                  ![m].replies = Append(sent, AnswerReply(m, "error")),
                                  ![m].delivered = n]
                /\ UNCHANGED busyByChat
           ELSE /\ h' = [h EXCEPT ![m] = Returned(@, next, ClearTimeout(@.timer), n)]
                /\ busyByChat' = Finally(busyByChat, h[m])
    /\ UNCHANGED <<variant, ALLOWED_CHATS, ALLOWED_USERS, raw, tail, cls, err, data, out>>

\* Mutant: the callback of the timer sets the flag.
TimerCallbackSetsBusy(busy, c) == BusySet(busy, c, TRUE)

\* Mutant: the callback of the timer leaves the flag alone.
TimerCallbackNothing(busy, c) == busy

\* index.js: the callback of the timer, () => busyByChat.set(chatId, false)
TimerCallback(busy, c) == BusySet(busy, c, FALSE)

\* index.js: setTimeout(() => busyByChat.set(chatId, false), BUSY_RESET_MS)
TimerFires(m) ==
    /\ m \in 1..Len(h)
    /\ h[m].timer = "armed"
    /\ h' = [h EXCEPT ![m].timer = "fired"]
    /\ busyByChat' = TimerCallback(busyByChat, h[m].chat)
    /\ UNCHANGED <<variant, ALLOWED_CHATS, ALLOWED_USERS, raw, tail, cls, err, data, out>>

-----------------------------------------------------------------------------
(* The bot *)

EmptyMap == [x \in {} |-> FALSE]

\* The contents of access.js: no list, a list of chats, a list of users.
AccessLists == {<<{}, {}>>, <<{"c1"}, {}>>, <<{}, {"u1"}>>}

Init ==
    /\ variant \in Variants
    /\ \E lists \in AccessLists :
          ALLOWED_CHATS = lists[1] /\ ALLOWED_USERS = lists[2]
    /\ variant # "index" => ALLOWED_CHATS = {} /\ ALLOWED_USERS = {}
    /\ busyByChat = EmptyMap
    /\ h = <<>>
    /\ raw = <<>>
    /\ tail = 0
    /\ cls = <<>>
    /\ err = <<>>
    /\ data = <<>>
    /\ out = <<>>

Next ==
    \/ \E c \in Chats, u \in Users, t \in Texts : Receive(c, u, t)
    \/ \E m \in 1..MaxMsgs : TypingDone(m)
    \/ \E m \in 1..MaxMsgs, res \in CallResults : CallReturns(m, res)
    \/ \E m \in 1..MaxMsgs, ok \in BOOLEAN : ReplyDone(m, ok)
    \/ \E m \in 1..MaxMsgs : TimerFires(m)

Spec == Init /\ [][Next]_vars

-----------------------------------------------------------------------------
(* Classification of one text: the handler of a fresh bot, in an allowed   *)
(* chat, is run on every text made of optional leading space, an optional  *)
(* word and up to MaxTail further characters.                              *)

Words == {<<>>, <<che, a_, te>>, <<CHE, A_, TE>>, <<CHE, a_, te>>,
          <<ka, er, i_, sha>>, <<che, a_>>}
Starts == {lead \o w : lead \in {<<>>, <<" ">>}, w \in Words}
TailChars == {" ", ",", ".", "-", "x", y_}

InitClassify ==
    /\ variant \in {"index", "part_002"}
    /\ ALLOWED_CHATS = {"c1"}
    /\ ALLOWED_USERS = {}
    /\ busyByChat = EmptyMap
    /\ h = <<>>
    /\ raw \in Starts
    /\ tail = 0
    /\ cls = <<>>
    /\ err = <<>>
    /\ data = <<>>
    /\ out = <<>>

Type(c) ==
    /\ cls = <<>>
    /\ tail < MaxTail
    /\ raw' = Append(raw, c)
    /\ tail' = tail + 1
    /\ UNCHANGED <<variant, ALLOWED_CHATS, ALLOWED_USERS, busyByChat, h, cls, err, data, out>>

Classify ==
    /\ cls = <<>>
    /\ cls' = <<HandleUpdate(1, "c1", "u1", raw)>>
    /\ UNCHANGED <<variant, ALLOWED_CHATS, ALLOWED_USERS, busyByChat, h, raw, tail, err, data, out>>

NextClassify == (\E c \in TailChars : Type(c)) \/ Classify

SpecClassify == InitClassify /\ [][NextClassify]_vars

-----------------------------------------------------------------------------
(* What the claims speak of *)

Msgs == 1..Len(h)

\* The dispatches of chat c that are outstanding: the call is in flight or its
\* reply is being delivered.
Outstanding(c) ==
    {m \in Msgs : /\ h[m].chat = c
                  /\ h[m].route = "dispatch"
                  /\ h[m].pc \in {"call", "replyAnswer", "replyErr"}}

\* A fallback timer of chat c has fired.
TimerFired(c) == \E m \in Msgs : h[m].chat = c /\ h[m].timer = "fired"

\* BusyFlag[c] is false, or c is absent from the map.
Idle(c) == c \notin DOMAIN busyByChat \/ busyByChat[c] = FALSE

-----------------------------------------------------------------------------
(* C1: in index.js and part_002, as long as no fallback timer of a chat    *)
(* has fired, at most one dispatch of that chat is outstanding, whatever   *)
(* the interleaving of updates across chats.  (The busy check and the set  *)
(* to true are one step of Receive: the source has no await between them.) *)
C1_OneDispatchPerChat ==
    HasBusyGate =>
        \A c \in Chats : ~TimerFired(c) => Cardinality(Outstanding(c)) <= 1

\* A dispatch of a chat is outstanding, no timer has fired, and a second
\* query of the same chat was turned away by the gate.
C1_Witness ==
    /\ HasBusyGate
    /\ \E m1 \in Msgs, m2 \in Msgs :
          /\ m1 \in Outstanding(h[m1].chat)
          /\ h[m2].chat = h[m1].chat
          /\ h[m2].route = "busy"
          /\ ~TimerFired(h[m1].chat)

-----------------------------------------------------------------------------
(* The step of an update's arrival, and of a dispatch's end *)

\* The handler of the update that has just arrived.
Arrived == h'[Len(h')]

\* The texts the trigger filter of index.js, and of part_002, forwards: not a
\* command, matched by the version's TRIGGER_RE, with a residual query.
ForwardedText ==
    [v \in {"index", "part_002"} |->
        {t \in Texts :
            /\ ~IsStart(t)
            /\ ~IsTestCommand(t)
            /\ IF v = "index"
               THEN /\ ~IsIdCommand(t)
                    /\ TRIGGER_RE(t) # NoMatch
                    /\ cleaned(t) # <<>>
               ELSE /\ OLD_TRIGGER_RE(t) # NoMatch
                    /\ old_cleaned(t) # <<>>}]

\* The message the handlers of index.js and part_002 forward: it passes the
\* version's own trigger and access filters with a residual query.
Accepted(c, u, t) ==
    /\ HasBusyGate
    /\ t \in ForwardedText[variant]
    /\ variant = "index" => (c \in ALLOWED_CHATS \/ u \in ALLOWED_USERS)

\* In this step an update of chat c arrives.
ArrivesIn(c) == Len(h') = Len(h) + 1 /\ h'[Len(h')].chat = c

\* The handler hd has sent nothing and posted nothing.
NoCall(hd) == hd.ncalls = 0 /\ hd.req = NoReq

\* The handler hd has sent exactly the reply of this kind, and awaits it.
OnlyReply(hd, kind) ==
    /\ hd.pc = "reply"
    /\ Len(hd.replies) = 1
    /\ hd.replies[1].kind = kind
    /\ hd.replies[1].body = kind

\* In this step the dispatch m ends: its handler returns or throws.
Ends(m) ==
    /\ h[m].route = "dispatch"
    /\ h[m].pc \in Live
    /\ h'[m].pc \in {"done", "threw"}

\* In this step the fallback timer of dispatch m fires.
Fires(m) == h[m].timer = "armed" /\ h'[m].timer = "fired"

-----------------------------------------------------------------------------
(* C2: in index.js and part_002 the map starts empty and an absent chat    *)
(* is idle; an accepted message of an idle chat passes the gate (the call  *)
(* is posted and the flag set); an accepted message of a busy chat gets    *)
(* the busy notice, posts nothing and leaves the map as it is; and when a  *)
(* dispatch ends (success, failure) or its timer fires, the chat is idle,  *)
(* so that the next accepted message passes.                               *)
C2_Step ==
    /\ \A c \in Chats :
          (HasBusyGate /\ ArrivesIn(c)) =>
              \A u \in Users, t \in Texts :
                  \/ ~Accepted(c, u, t)
                  \/ IF Idle(c)
                     THEN /\ Arrived.route = "dispatch"
                          /\ Arrived.pc = "call"
                          /\ Arrived.ncalls = 1
                          /\ c \in DOMAIN busyByChat' /\ busyByChat'[c] = TRUE
                     ELSE /\ Arrived.route = "busy"
                          /\ OnlyReply(Arrived, "busy")
                          /\ NoCall(Arrived)
                          /\ busyByChat' = busyByChat
                  \/ ~Receive(c, u, t)
    /\ \A m \in Msgs :
          (HasBusyGate /\ (Ends(m) \/ Fires(m))) =>
              /\ h[m].chat \in DOMAIN busyByChat'
              /\ busyByChat'[h[m].chat] = FALSE

C2_BusyGate == (DOMAIN busyByChat = {}) /\ [][C2_Step]_vars

\* A first dispatch of a chat has ended, and a later message of the same chat
\* has passed the gate: its call is in flight.
C2_Witness ==
    /\ HasBusyGate
    /\ \E m1 \in Msgs, m2 \in Msgs :
          /\ m1 < m2
          /\ h[m1].chat = h[m2].chat
          /\ h[m1].route = "dispatch" /\ h[m1].pc \in {"done", "threw"}
          /\ h[m2].route = "dispatch" /\ h[m2].pc = "call"

-----------------------------------------------------------------------------
(* C3: in index.js and part_002, whenever the handler of a dispatch ends   *)
(* (the call succeeded or failed, the answer was delivered or not, the     *)
(* apology was delivered or not), the flag of its chat is false.           *)
C3_ReleasedOnEveryPath ==
    [][\A m \in Msgs :
          (HasBusyGate /\ Ends(m)) =>
              /\ h[m].chat \in DOMAIN busyByChat'
              /\ busyByChat'[h[m].chat] = FALSE]_vars

\* A dispatch has thrown (its apology was not delivered), another has returned,
\* and the flags of their chats are false.
C3_Witness ==
    /\ HasBusyGate
    /\ \E m1 \in Msgs, m2 \in Msgs :
          /\ h[m1].route = "dispatch" /\ h[m1].pc = "threw"
          /\ h[m2].route = "dispatch" /\ h[m2].pc = "done"
          /\ ~BusyGet(busyByChat, h[m1].chat)
          /\ ~BusyGet(busyByChat, h[m2].chat)

-----------------------------------------------------------------------------
(* C4, as claimed: every query that passed the filters and the gate has,   *)
(* when its handler has ended, exactly one delivered reply.                *)
C4_ExactlyOneReply ==
    \A m \in Msgs :
        (h[m].route = "dispatch" /\ h[m].pc \in {"done", "threw"}) =>
            h[m].delivered = 1

(* C4, amended: such a query never has two delivered replies; it has none  *)
(* while the call is in flight; when its handler returns it has exactly    *)
(* one; when its handler throws (the apology was not delivered) it has     *)
(* none.  At most two replies are ever sent for it: the answer, and the    *)
(* apology if the call or the delivery of the answer failed.               *)
C4_AtMostOneReply ==
    \A m \in Msgs :
        h[m].route = "dispatch" =>
            /\ h[m].delivered <= 1
            /\ Len(h[m].replies) <= 2
            /\ h[m].pc \in {"typing", "call"} => h[m].replies = <<>>
            /\ h[m].pc = "done" => h[m].delivered = 1
            /\ h[m].pc = "threw" => h[m].delivered = 0
            /\ h[m].pc = "replyErr" => h[m].delivered = 0

\* One query has ended with its one reply delivered, another with none.
C4_Witness ==
    \E m1 \in Msgs, m2 \in Msgs :
        /\ h[m1].route = "dispatch" /\ h[m1].pc = "done" /\ h[m1].delivered = 1
        /\ h[m2].route = "dispatch" /\ h[m2].pc = "threw" /\ h[m2].delivered = 0

-----------------------------------------------------------------------------
(* C5: in index.js and part_002, the handler of an arriving update posts   *)
(* one request when the message is accepted and the chat is idle, and none *)
(* otherwise (busy, denied, ignored); no later step of any handler (an     *)
(* error of the call, a failed delivery) posts another.                    *)
C5_Step ==
    /\ \A c \in Chats, u \in Users, t \in Texts :
          (HasBusyGate /\ ArrivesIn(c)) =>
              \/ Arrived.ncalls = IF Accepted(c, u, t) /\ Idle(c) THEN 1 ELSE 0
              \/ ~Receive(c, u, t)
    /\ \A m \in Msgs : HasBusyGate => h'[m].ncalls = h[m].ncalls

C5_OneCallPerQuery == [][C5_Step]_vars

\* The call of a query has failed, or its answer could not be delivered, and
\* the handler is sending the apology.
C5_Witness ==
    /\ HasBusyGate
    /\ \E m \in Msgs : h[m].pc = "replyErr" /\ Len(h[m].replies) = 2
    /\ \E m \in Msgs : h[m].route \in {"busy", "ignored", "denied"}

-----------------------------------------------------------------------------
(* The grammar of the specification: <space>* <trigger> <sep>* <rest>      *)

SpecSpaces == {" ", "\n"}
SpecSeps == SpecSpaces \cup {",", ".", ":", ";", "!", "?", "-"}

\* The offsets at which a trigger word, in any letter case and after leading
\* white space only, ends in t.
SpecTriggerEnds(t) ==
    {e \in 1..Len(t) :
        \E w \in TriggerWords :
            /\ e >= Len(w)
            /\ ToLowerCase(SubSeq(t, e - Len(w) + 1, e)) = w
            /\ \A k \in 1..(e - Len(w)) : t[k] \in SpecSpaces}

\* t starts with a trigger word followed by a separator or the end of t.
SpecTrigger(t) ==
    \E e \in SpecTriggerEnds(t) : e = Len(t) \/ t[e + 1] \in SpecSeps

\* t starts with a trigger word followed by something else ("chatik").
SpecGlued(t) ==
    \E e \in SpecTriggerEnds(t) : e < Len(t) /\ t[e + 1] \notin SpecSeps

\* rest: what follows the trigger word and the separators after it.
SpecRest(t) ==
    LET e == CHOOSE x \in SpecTriggerEnds(t) : TRUE
        n == CHOOSE k \in e..Len(t) :
                 /\ \A j \in (e + 1)..k : t[j] \in SpecSeps
                 /\ k = Len(t) \/ t[k + 1] \notin SpecSeps
    IN  SubSeq(t, n + 1, Len(t))

\* rest.trim()
SpecQuery(t) == Trim(SpecRest(t))

\* The literal message "id", in any case, surrounding white space trimmed.
SpecIsId(t) == ToLowerCase(Trim(t)) = <<"i", "d">>

\* The texts of the state machine, by what the specification calls them.
TriggerTexts == {t \in Texts : SpecTrigger(t)}
BareTexts == {t \in TriggerTexts : SpecQuery(t) = <<>>}
IdTexts == {t \in Texts : SpecIsId(t)}
OtherTexts == {t \in Texts : ~SpecTrigger(t) /\ ~SpecIsId(t)}

\* An allow-list is configured.
Configured == ALLOWED_CHATS # {} \/ ALLOWED_USERS # {}

\* The handler m has made a step, and the step posted no request and left
\* busyByChat as it was.
StepsQuietly(m) ==
    h'[m] # h[m] => h'[m].ncalls = 0 /\ h'[m].req = NoReq /\ busyByChat' = busyByChat

-----------------------------------------------------------------------------
(* C6: in index.js, with an allow-list configured, a trigger-matching      *)
(* message whose chat is not in ALLOWED_CHATS and whose sender is not in   *)
(* ALLOWED_USERS gets the denial reply and nothing else: its handler posts *)
(* no request and busyByChat stays as it is, then and when the reply has   *)
(* been delivered or has failed.  A message whose chat or whose sender is  *)
(* listed is not denied.                                                   *)
C6_Step ==
    /\ \A c \in Chats :
          (variant = "index" /\ ArrivesIn(c)) =>
              \A u \in Users, t \in TriggerTexts :
                  \/ IF c \in ALLOWED_CHATS \/ u \in ALLOWED_USERS
                     THEN Arrived.route # "denied"
                     ELSE Configured =>
                              /\ Arrived.route = "denied"
                              /\ OnlyReply(Arrived, "denied")
                              /\ NoCall(Arrived)
                              /\ busyByChat' = busyByChat
                  \/ ~Receive(c, u, t)
    /\ \A m \in Msgs : h[m].route = "denied" => StepsQuietly(m)

C6_DeniedNeverCalls == [][C6_Step]_vars

\* With a list configured, a message of a chat that is busy was denied (its
\* sender is not listed), and the denial has been delivered.
C6_Witness ==
    /\ variant = "index"
    /\ Configured
    /\ \E m1 \in Msgs, m2 \in Msgs :
          /\ h[m1].chat = h[m2].chat
          /\ h[m1].route = "dispatch" /\ h[m1].pc = "call"
          /\ h[m2].route = "denied" /\ h[m2].pc = "done" /\ h[m2].delivered = 1

-----------------------------------------------------------------------------
(* C7: in index.js the message "id" (any case, white space around it) is   *)
(* answered with the chat id and the sender id, whatever the allow-lists   *)
(* and busyByChat hold; its handler posts no request and busyByChat stays  *)
(* as it is, then and when the reply has been delivered or has failed.     *)
C7_Step ==
    /\ \A c \in Chats :
          (variant = "index" /\ ArrivesIn(c)) =>
              \A u \in Users, t \in IdTexts :
                  \/ /\ Arrived.route = "id"
                     /\ Arrived.pc = "reply"
                     /\ Len(Arrived.replies) = 1
                     /\ Arrived.replies[1].body = <<c, u>>
                     /\ NoCall(Arrived)
                     /\ busyByChat' = busyByChat
                  \/ ~Receive(c, u, t)
    /\ \A m \in Msgs : h[m].route = "id" => StepsQuietly(m)

C7_IdAlwaysAnswered == [][C7_Step]_vars

\* A sender who is not listed asks for the ids in a chat that is not listed
\* and is busy.
C7_Witness ==
    /\ variant = "index"
    /\ ALLOWED_USERS = {"u1"}
    /\ \E m1 \in Msgs, m2 \in Msgs :
          /\ h[m1].chat = h[m2].chat
          /\ BusyGet(busyByChat, h[m1].chat)
          /\ h[m1].route = "dispatch" /\ h[m1].pc = "call"
          /\ h[m2].route = "id" /\ h[m2].pc = "reply"
          /\ h[m2].replies[1].body = <<h[m2].chat, "u2">>

-----------------------------------------------------------------------------
\* The handler hd has returned without a reply and without a request.
IsSilent(hd) ==
    /\ hd.pc = "done"
    /\ hd.replies = <<>>
    /\ hd.delivered = 0
    /\ NoCall(hd)

(* C8, as claimed: in index.js and part_000, a text other than "id" that   *)
(* does not start with a trigger word followed by a separator or the end   *)
(* is met with silence: no reply, no request, busyByChat as it was.        *)
C8_Original ==
    \A c \in Chats :
        (variant \in {"index", "part_000"} /\ ArrivesIn(c)) =>
            \A u \in Users, t \in OtherTexts :
                \/ IsSilent(Arrived) /\ busyByChat' = busyByChat
                \/ ~Receive(c, u, t)

C8_NonTriggerIgnored == [][C8_Original]_vars

(* C8, amended: in index.js, a text other than "id", the test text "f" and *)
(* the command /start that does not start with a trigger word followed by  *)
(* a separator or the end is met with silence, allowed or not: no reply,   *)
(* no request, busyByChat as it was.                                       *)
C8_Step ==
    \A c \in Chats :
        (variant = "index" /\ ArrivesIn(c)) =>
            \A u \in Users, t \in OtherTexts \ {TTest, TStart} :
                \/ /\ Arrived.route = "ignored"
                   /\ IsSilent(Arrived)
                   /\ busyByChat' = busyByChat
                \/ ~Receive(c, u, t)

C8_NonTriggerIgnoredByIndex == [][C8_Step]_vars

\* A chat that is not listed has sent a text without trigger, and a text
\* where the trigger word runs on, and both were ignored.
C8_Witness ==
    /\ variant = "index"
    /\ ALLOWED_CHATS = {"c1"}
    /\ Len(h) = 2
    /\ \A m \in Msgs : h[m].chat = "c2" /\ h[m].route = "ignored"

-----------------------------------------------------------------------------
\* What the specification's classify yields for raw is what the handler did.
ClassifiedAsSpecified ==
    /\ SpecTrigger(raw) =>
          IF SpecQuery(raw) # <<>>
          THEN /\ cls[1].route = "dispatch"
               /\ cls[1].ncalls = 1
               /\ cls[1].req.input_value = SpecQuery(raw)
          ELSE IsSilent(cls[1])
    /\ SpecGlued(raw) => cls[1].route = "ignored" /\ IsSilent(cls[1])

(* C9: in index.js and part_002, a text <space>* <trigger> <sep>* <rest>,  *)
(* the trigger in any letter case, is forwarded with the query rest.trim() *)
(* when that is not empty and ignored when it is; a text where the trigger *)
(* word is followed by something other than a separator is ignored.        *)
C9_Classify == cls # <<>> => ClassifiedAsSpecified

\* The same of index.js alone.
IndexClassify == (cls # <<>> /\ variant = "index") => ClassifiedAsSpecified

-----------------------------------------------------------------------------
(* C10, as claimed: in index.js and part_002 a bare trigger word (nothing, *)
(* or separators only, after it) is met with silence in every state: no    *)
(* reply, no request, busyByChat as it was.                                *)
C10_Original ==
    \A c \in Chats :
        (HasBusyGate /\ ArrivesIn(c)) =>
            \A u \in Users, t \in BareTexts :
                \/ IsSilent(Arrived) /\ busyByChat' = busyByChat
                \/ ~Receive(c, u, t)

C10_BareTriggerSilent == [][C10_Original]_vars

(* C10, amended: in index.js and part_002 a bare trigger word posts no     *)
(* request, leaves busyByChat as it was and never gets the busy notice; it *)
(* is met with silence, except in index.js when neither its chat nor its   *)
(* sender is listed: then it gets the denial reply, and only that.         *)
C10_Step ==
    \A c \in Chats :
        (HasBusyGate /\ ArrivesIn(c)) =>
            \A u \in Users, t \in BareTexts :
                \/ /\ NoCall(Arrived)
                   /\ busyByChat' = busyByChat
                   /\ Arrived.route # "busy"
                   /\ IF variant = "index" /\ c \notin ALLOWED_CHATS
                                           /\ u \notin ALLOWED_USERS
                      THEN OnlyReply(Arrived, "denied")
                      ELSE IsSilent(Arrived)
                \/ ~Receive(c, u, t)

C10_BareTriggerNoCall == [][C10_Step]_vars

\* In index.js a bare trigger of an allowed sender arrived in a busy chat and
\* was passed over in silence.
C10_Witness ==
    /\ variant = "index"
    /\ \E m1 \in Msgs, m2 \in Msgs :
          /\ m1 < m2
          /\ h[m1].chat = h[m2].chat
          /\ h[m1].route = "dispatch" /\ h[m1].pc = "call"
          /\ BusyGet(busyByChat, h[m1].chat)
          /\ h[m2].route = "empty" /\ h[m2].pc = "done"

-----------------------------------------------------------------------------
(* Translation of a failed call into the reply of the catch block.         *)

Undefined == "undefined"

\* What axios.post throws: without a response (network error, timeout) or
\* with the response of an HTTP error status; message may be empty.
NetworkErrors ==
    [response : {<<>>}, message : {"timeout of 30000ms exceeded", "ECONNREFUSED"}]
HttpErrors ==
    [response : {<<r>> : r \in [status : {"401", "403", "404", "413", "500"},
                                detail : {Undefined, "no such flow"}]},
     message : {"Request failed", ""}]
Errors == NetworkErrors \cup HttpErrors

\* err?.response?.status
StatusOf(e) == IF e.response = <<>> THEN Undefined ELSE e.response[1].status

\* err?.response?.data?.detail
DetailOf(e) == IF e.response = <<>> THEN Undefined ELSE e.response[1].detail

\* Mutant: the status is left out of the text.
humanErrorNoStatus(e) ==
    <<"Status: ", "-", ". ", IF e.message = "" THEN "Unknown error" ELSE e.message>>

\* part_000: humanError(err), a template string, as the sequence of its parts.
humanError(e) ==
    LET status == StatusOf(e)
        msg == IF e.message = "" THEN "Unknown error" ELSE e.message
        brief == <<"Status: ", IF status = Undefined THEN "-" ELSE status, ". ", msg>>
    IN  IF DetailOf(e) # Undefined
        THEN brief \o <<" | Details: ", DetailOf(e)>>
        ELSE brief

\* The text the catch block replies with.
ErrorReply(v, e) ==
    IF v = "part_000"
    THEN <<"apology", "\n">> \o humanError(e)
    ELSE <<"apology">>

InitError ==
    /\ variant \in Variants
    /\ ALLOWED_CHATS = {}
    /\ ALLOWED_USERS = {}
    /\ busyByChat = EmptyMap
    /\ h = <<>>
    /\ raw = <<>>
    /\ tail = 0
    /\ cls = <<>>
    /\ err \in Errors \X Errors
    /\ data = <<>>
    /\ out = <<>>

\* Each of the two calls fails with its error, and its catch block makes its
\* reply.
Translate ==
    /\ out = <<>>
    /\ out' = <<ErrorReply(variant, err[1]), ErrorReply(variant, err[2])>>
    /\ UNCHANGED <<variant, ALLOWED_CHATS, ALLOWED_USERS, busyByChat, h, raw, tail,
                   cls, err, data>>

SpecError == InitError /\ [][Translate]_vars

-----------------------------------------------------------------------------
\* The category the specification puts an error in.
SpecCategory(e) ==
    CASE StatusOf(e) \in {"401", "403"} -> "unauthorized"
      [] StatusOf(e) = "404" -> "not-found"
      [] StatusOf(e) = "413" -> "payload-too-large"
      [] OTHER -> "generic"

-----------------------------------------------------------------------------
(* Extraction of the answer from the response of Langflow.                 *)
(*                                                                         *)
(* A JSON value is a record with its type: a string carries its characters *)
(* in s, an array its elements in s.  An output entry is the record of the *)
(* values at the six paths the code reads from it.                         *)

Undef == [type |-> "undefined", s |-> <<>>]
Num == [type |-> "number", s |-> <<"4", "2">>]
Str(s) == [type |-> "string", s |-> s]
Arr(a) == [type |-> "array", s |-> a]

\* a ?? b
Coalesce(a, b) == IF a.type \in {"undefined", "null"} THEN b ELSE a

\* typeof v === 'string' && v.trim()
IsText(v) == v.type = "string" /\ Trim(v.s) # <<>>

\* Array.isArray(v) ? v : []
ArrayOrEmpty(v) == IF v.type = "array" THEN v.s ELSE <<>>

\* An output entry o, by path: results.message.text, results.text,
\* results.output_text, data.text, data.output_text, content.
Entry(mt, rt, ot, dt, dot, content) ==
    [mt |-> mt, rt |-> rt, ot |-> ot, dt |-> dt, dot |-> dot, content |-> content]

\* part_000: txt of an entry.
EntryText(o) ==
    Coalesce(o.mt, Coalesce(o.rt, Coalesce(o.ot, Coalesce(o.dt, Coalesce(o.dot,
        IF o.content.type = "string" THEN o.content ELSE Undef)))))

\* index.js: msg of an entry.
EntryMsg(o) == Coalesce(o.mt, o.rt)

\* The condition of a && or a ||: undefined, null, 0 and '' are falsy.
Truthy(v) ==
    /\ v.type \notin {"undefined", "null"}
    /\ v.type = "string" => v.s # <<>>
    /\ v.type = "number" => v.s # <<"0">>

\* a || b
Or(a, b) == IF Truthy(a) THEN a ELSE b

\* part_001: msg of an entry.
EntryMsgOr(o) == Or(o.mt, o.rt)

\* for (const o of outs) { ... if (typeof txt === 'string' && txt.trim()) return txt }
\* with the texts of the entries in order: the first text, or Undef.
RECURSIVE FirstText(_)
FirstText(texts) ==
    IF texts = <<>> THEN Undef
    ELSE IF IsText(Head(texts)) THEN Head(texts)
    ELSE FirstText(Tail(texts))

\* A section of data.outputs: an object, or null.
Section(name, outputs) == [type |-> "object", component_name |-> name, outputs |-> outputs]
NullSection == [type |-> "null", component_name |-> Undef, outputs |-> Undef]

\* outputsArr.find((x) => x?.component_name === preferComponentName): its index,
\* or 0.
FindSection(arr, name) ==
    LET hits == {k \in 1..Len(arr) : arr[k].component_name = Str(name)}
    IN  IF hits = {} THEN 0 ELSE CHOOSE k \in hits : \A j \in hits : k <= j

\* Mutant: the first section is taken whatever its component_name.
SelectFirstSection(arr, name) == arr[1]

\* outputsArr.find(...) ?? outputsArr[0]
SelectSection(arr, name) ==
    IF FindSection(arr, name) = 0 THEN arr[1] ELSE arr[FindSection(arr, name)]

\* The response document: an object, or null.
Doc(outputs, text, message) ==
    [type |-> "object", outputs |-> outputs, text |-> text, message |-> message]
NullDoc == [type |-> "null", outputs |-> Undef, text |-> Undef, message |-> Undef]

Null == [type |-> "null", s |-> <<>>]

\* part_000: extractAnswer(data, preferComponentName)
extractAnswer(d, preferComponentName) ==
    IF d.type = "null" THEN Null
    ELSE LET outputsArr == ArrayOrEmpty(d.outputs)
             outs == IF outputsArr = <<>> THEN <<>>
                     ELSE ArrayOrEmpty(SelectSection(outputsArr, preferComponentName).outputs)
             txt == FirstText([k \in 1..Len(outs) |-> EntryText(outs[k])])
         IN  IF txt # Undef THEN txt
             ELSE IF IsText(d.text) THEN d.text
             ELSE IF IsText(d.message) THEN d.message
             ELSE Null

\* The placeholder index.js answers with when it finds no text.
Placeholder == Str(<<"(", "empty", ")">>)

\* index.js: extractAnswer(data)
extractAnswerIndex(d) ==
    LET arr == ArrayOrEmpty(d.outputs)
        outputs == IF arr = <<>> THEN Undef ELSE arr[1].outputs
        msg == FirstText([k \in 1..Len(ArrayOrEmpty(outputs)) |->
                              EntryMsg(ArrayOrEmpty(outputs)[k])])
    IN  IF msg # Undef THEN msg
        ELSE IF IsText(d.message) THEN d.message
        ELSE Placeholder

\* part_001: extractAnswer(data)
extractAnswer001(d) ==
    LET arr == ArrayOrEmpty(d.outputs)
        outputs == IF arr = <<>> THEN Undef ELSE arr[1].outputs
        msg == FirstText([k \in 1..Len(ArrayOrEmpty(outputs)) |->
                              EntryMsgOr(ArrayOrEmpty(outputs)[k])])
    IN  IF msg # Undef THEN msg
        ELSE IF IsText(d.message) THEN d.message
        ELSE Placeholder

\* part_000: LANGFLOW_OUTPUT_COMPONENT = 'Text Input'
LANGFLOW_OUTPUT_COMPONENT == <<"Text Input">>

\* Output entries: empty; a nested message text; a flat text; an empty nested
\* message text beside a flat text; a raw content only.
NoEntry == Entry(Undef, Undef, Undef, Undef, Undef, Undef)
Hello == Entry(Str(<<"hello">>), Undef, Undef, Undef, Undef, Undef)
Bye == Entry(Undef, Str(<<"bye">>), Undef, Undef, Undef, Undef)
EmptyThenBye == Entry(Str(<<>>), Str(<<"bye">>), Undef, Undef, Undef, Undef)
Content == Entry(Undef, Undef, Undef, Undef, Undef, Str(<<"raw">>))

\* The outputs of a section: missing, or a list of entries.
SectionOutputs ==
    {Undef, Arr(<<>>), Arr(<<Hello>>), Arr(<<Bye>>), Arr(<<NoEntry, Hello>>),
     Arr(<<EmptyThenBye>>), Arr(<<Content>>)}

Sections ==
    {NullSection} \cup
    {Section(name, o) : name \in {Undef, Str(LANGFLOW_OUTPUT_COMPONENT), Str(<<"Other">>)},
                        o \in SectionOutputs}

\* The responses: null, or a document with or without outputs (up to
\* MaxSections sections), text and message.
Docs ==
    {NullDoc} \cup
    {Doc(o, text, message) :
        o \in {Undef} \cup {Arr(a) : a \in UNION {[1..n -> Sections] : n \in 0..MaxSections}},
        text \in {Undef, Str(<<"top">>)},
        message \in {Undef, Str(<<"fallback">>), Str(<<" ">>)}}

InitExtract ==
    /\ variant \in {"index", "part_000"}
    /\ ALLOWED_CHATS = {}
    /\ ALLOWED_USERS = {}
    /\ busyByChat = EmptyMap
    /\ h = <<>>
    /\ raw = <<>>
    /\ tail = 0
    /\ cls = <<>>
    /\ err = <<>>
    /\ data \in Docs
    /\ out = <<>>

\* const answer = extractAnswer(data, ...)
Extract ==
    /\ out = <<>>
    /\ out' = CASE variant = "index" -> <<extractAnswerIndex(data)>>
                [] variant = "part_001" -> <<extractAnswer001(data)>>
                [] OTHER -> <<extractAnswer(data, LANGFLOW_OUTPUT_COMPONENT)>>
    /\ UNCHANGED <<variant, ALLOWED_CHATS, ALLOWED_USERS, busyByChat, h, raw, tail,
                   cls, err, data>>

SpecExtract == InitExtract /\ [][Extract]_vars

-----------------------------------------------------------------------------
(* The ordered search of the specification.                                *)

\* The top-level sections of d.
SpecSectionsOf(d) ==
    IF d.type = "object" /\ d.outputs.type = "array" THEN d.outputs.s ELSE <<>>

\* The section the search uses: the first whose component_name is the expected
\* one when byName, else the first; 0 when there is none.
SpecSectionIndex(d, byName) ==
    LET secs == SpecSectionsOf(d)
        named == {k \in 1..Len(secs) :
                     secs[k].component_name = Str(LANGFLOW_OUTPUT_COMPONENT)}
    IN  IF secs = <<>> THEN 0
        ELSE IF byName /\ named # {} THEN CHOOSE k \in named : \A j \in named : k <= j
        ELSE 1

\* The texts of the entries of that section, as the version reads an entry.
SpecEntryTexts(d, byName) ==
    LET k == SpecSectionIndex(d, byName)
        entries == IF k = 0 \/ SpecSectionsOf(d)[k].outputs.type # "array"
                   THEN <<>>
                   ELSE SpecSectionsOf(d)[k].outputs.s
    IN  [j \in 1..Len(entries) |->
            IF variant = "index" THEN EntryMsg(entries[j]) ELSE EntryText(entries[j])]

\* The answer of the ordered search: the first text of the section; failing
\* that the top-level text (when useText), then the top-level message; failing
\* that the sentinel.
SpecAnswer(d, byName, useText, sentinel) ==
    LET texts == SpecEntryTexts(d, byName)
        found == {j \in 1..Len(texts) : IsText(texts[j])}
    IN  IF found # {} THEN texts[CHOOSE j \in found : \A i \in found : j <= i]
        ELSE IF useText /\ d.type = "object" /\ IsText(d.text) THEN d.text
        ELSE IF d.type = "object" /\ IsText(d.message) THEN d.message
        ELSE sentinel

\* What a version returns when it finds nothing.
Sentinel == IF variant = "index" THEN Placeholder ELSE Null

(* C12, as claimed: in part_000 and index.js, extractAnswer returns, for    *)
(* every response, the answer of the ordered search: the section of the    *)
(* expected component or else the first, then the top-level text, then the *)
(* top-level message, then the sentinel.                                   *)
C12_OrderedSearch ==
    out # <<>> => out[1] = SpecAnswer(data, TRUE, TRUE, Sentinel)

(* C12, amended: extractAnswer returns a value for every response.  In     *)
(* part_000 it is the answer of the ordered search, with null as the       *)
(* sentinel.  In index.js the section is always the first one, the         *)
(* top-level text is not looked at, and the sentinel is the placeholder    *)
(* text.                                                                   *)
C12_ExtractAnswer ==
    out # <<>> =>
        /\ out[1].type \in {"string", "null"}
        /\ IF variant = "part_000"
           THEN out[1] = SpecAnswer(data, TRUE, TRUE, Null)
           ELSE out[1] = SpecAnswer(data, FALSE, FALSE, Placeholder)

\* part_000 has passed over a first section with a text for the second, which
\* is the expected component's.
C12_Witness ==
    /\ variant = "part_000"
    /\ out # <<>>
    /\ Len(SpecSectionsOf(data)) = 2
    /\ SpecSectionIndex(data, TRUE) = 2
    /\ SpecSectionsOf(data)[1].outputs = Arr(<<Hello>>)
    /\ out[1] = Str(<<"bye">>)

-----------------------------------------------------------------------------
\* The texts that start with a trigger and have a query after it.
QueryTexts == TriggerTexts \ BareTexts

(* C13, as claimed: in index.js, when ALLOWED_CHATS and ALLOWED_USERS are   *)
(* both empty, a trigger-matching message with a query is not answered     *)
(* with the denial reply.                                                  *)
C13_Original ==
    \A c \in Chats :
        (variant = "index" /\ ~Configured /\ ArrivesIn(c)) =>
            \A u \in Users, t \in QueryTexts :
                Arrived.route # "denied" \/ ~Receive(c, u, t)

C13_OpenWhenUnconfigured == [][C13_Original]_vars

(* C13, amended: in index.js, when ALLOWED_CHATS and ALLOWED_USERS are both *)
(* empty, nobody is eligible: every trigger-matching message with a query  *)
(* gets the denial reply and nothing else; no request is posted and        *)
(* busyByChat stays as it is.                                              *)
C13_Step ==
    \A c \in Chats :
        (variant = "index" /\ ~Configured /\ ArrivesIn(c)) =>
            \A u \in Users, t \in QueryTexts :
                \/ /\ Arrived.route = "denied"
                   /\ OnlyReply(Arrived, "denied")
                   /\ NoCall(Arrived)
                   /\ busyByChat' = busyByChat
                \/ ~Receive(c, u, t)

C13_ClosedWhenUnconfigured == [][C13_Step]_vars

\* With both lists empty, both chats have been denied, and nothing was posted.
C13_Witness ==
    /\ variant = "index"
    /\ ~Configured
    /\ Len(h) = 2
    /\ h[1].chat # h[2].chat
    /\ \A m \in Msgs : h[m].route = "denied" /\ h[m].pc = "done" /\ h[m].ncalls = 0
    /\ DOMAIN busyByChat = {}

-----------------------------------------------------------------------------
\* The handler hd has built a request.
HasRequest(hd) == hd.req # NoReq

\* In this step the call of handler m returns a response with a text in it.
AnswerArrives(m) ==
    /\ h[m].pc = "call"
    /\ h'[m].pc = "replyAnswer"
    /\ h'[m].replies[Len(h'[m].replies)].kind = "answer"

\* The reply handler m has just sent is the extracted text, addressed to the
\* message m.
AnswersOriginal(m) ==
    LET r == h'[m].replies[Len(h'[m].replies)]
    IN  r.body = "text" /\ r.to = m /\ Len(h'[m].replies) = 1

(* C14, as claimed: in index.js and part_000, the request built for a      *)
(* message of chat c carries session_id c and, as input_value, the query   *)
(* left of the text after the trigger word and the separators, which is    *)
(* not empty; a response with a text is answered with that text, addressed *)
(* to the message.                                                         *)
C14_Original ==
    /\ \A c \in Chats :
          (variant \in {"index", "part_000"} /\ ArrivesIn(c)) =>
              \A u \in Users, t \in Texts :
                  \/ ~HasRequest(Arrived)
                  \/ /\ t \in QueryTexts
                     /\ Arrived.req = [session_id |-> c, input_value |-> SpecQuery(t)]
                  \/ ~Receive(c, u, t)
    /\ \A m \in Msgs :
          (variant \in {"index", "part_000"} /\ AnswerArrives(m)) => AnswersOriginal(m)

C14_ResidualForwarded == [][C14_Original]_vars

(* C14, amended: the request carries session_id c in both versions.  In    *)
(* index.js input_value is the query left after the trigger word, never    *)
(* empty, and c is the key of busyByChat the handler sets.  In part_000,   *)
(* which has no trigger, input_value is the whole text as received, with   *)
(* the trigger word when the text has one.  A response with a text is      *)
(* answered with that text, addressed to the message.                      *)
C14_Step ==
    /\ \A c \in Chats :
          (variant \in {"index", "part_000"} /\ ArrivesIn(c)) =>
              \A u \in Users, t \in Texts :
                  \/ ~HasRequest(Arrived)
                  \/ /\ Arrived.req.session_id = c
                     /\ IF variant = "index"
                        THEN /\ t \in QueryTexts
                             /\ Arrived.req.input_value = SpecQuery(t)
                             /\ Arrived.req.input_value # <<>>
                             /\ c \in DOMAIN busyByChat' /\ busyByChat'[c]
                        ELSE /\ Arrived.req.input_value = t
                             /\ busyByChat' = busyByChat
                  \/ ~Receive(c, u, t)
    /\ \A m \in Msgs :
          (variant \in {"index", "part_000"} /\ h'[m] # h[m]) =>
              /\ HasRequest(h'[m]) => h'[m].req = h[m].req
              /\ AnswerArrives(m) => AnswersOriginal(m)

C14_RequestAndAnswer == [][C14_Step]_vars

\* index.js: the call of one chat is in flight with the query as input_value,
\* and the answer to another chat is on its way, addressed to its message.
C14_Witness ==
    /\ variant = "index"
    /\ \E m1 \in Msgs, m2 \in Msgs :
          /\ h[m1].pc = "call"
          /\ h[m1].req = [session_id |-> h[m1].chat, input_value |-> <<"x">>]
          /\ BusyGet(busyByChat, h[m1].chat)
          /\ h[m2].pc = "replyAnswer"
          /\ h[m2].replies = <<[kind |-> "answer", to |-> m2, body |-> "text",
                                st |-> "pending"]>>

-----------------------------------------------------------------------------
\* The replies the core makes for a message: the answer, the empty-answer
\* placeholder, the busy notice, the denial, the apology.
CoreReplies == {"answer", "empty", "busy", "denied", "error"}

(* C15, as claimed: in all three versions every reply of the core is       *)
(* addressed to the message it is made for.                                *)
C15_AllAddressed ==
    \A m \in Msgs :
        \A k \in 1..Len(h[m].replies) :
            h[m].replies[k].kind \in CoreReplies => h[m].replies[k].to = m

\* The replies each version addresses to the message.
AddressedReplies ==
    [v \in Variants |->
        CASE v = "index" -> {"answer", "empty", "busy", "error"}
          [] v = "part_002" -> {"answer", "empty"}
          [] v = "part_000" -> {"answer"}]

(* C15, amended: the answer is addressed to the message in all three       *)
(* versions; so are the placeholder in index.js and part_002, and the busy *)
(* notice and the apology in index.js.  The denial of index.js, the busy   *)
(* notice and the apology of part_002, and the placeholder and the apology *)
(* of part_000 are plain messages to the chat, addressed to no message.    *)
C15_AddressedReplies ==
    \A m \in Msgs :
        \A k \in 1..Len(h[m].replies) :
            h[m].replies[k].kind \in CoreReplies =>
                h[m].replies[k].to =
                    IF h[m].replies[k].kind \in AddressedReplies[variant] THEN m ELSE 0

\* part_002: an answer, addressed, and a busy notice, not addressed, are on
\* their way to the same chat.
C15_Witness ==
    /\ variant = "part_002"
    /\ \E m1 \in Msgs, m2 \in Msgs :
          /\ h[m1].chat = h[m2].chat
          /\ h[m1].pc = "replyAnswer"
          /\ h[m1].replies[1].kind = "answer" /\ h[m1].replies[1].to = m1
          /\ h[m2].pc = "reply"
          /\ h[m2].replies[1].kind = "busy" /\ h[m2].replies[1].to = 0

-----------------------------------------------------------------------------
\* The dispatch m awaits the delivery of a reply.
Delivering(m) ==
    h[m].route = "dispatch" /\ h[m].pc \in {"replyAnswer", "replyErr"}

(* C16: in index.js, when the fallback timer of a dispatch fires, the flag *)
(* of its chat is false afterwards whether or not the call or the reply is *)
(* still outstanding; an accepted message that finds the flag false is     *)
(* admitted although a dispatch of the chat is outstanding; and when two   *)
(* dispatches of a chat await the delivery of their replies, either reply  *)
(* can be delivered next.                                                  *)
C16_Step ==
    /\ \A m \in Msgs :
          (variant = "index" /\ Fires(m)) =>
              /\ h[m].chat \in DOMAIN busyByChat'
              /\ busyByChat'[h[m].chat] = FALSE
              /\ h'[m].pc = h[m].pc
    /\ \A c \in Chats :
          (variant = "index" /\ ArrivesIn(c) /\ Outstanding(c) # {} /\ Idle(c)) =>
              \A u \in Users, t \in Texts :
                  \/ ~Accepted(c, u, t)
                  \/ Arrived.route = "dispatch" /\ Arrived.pc = "call"
                  \/ ~Receive(c, u, t)

C16_EitherOrder ==
    \A m1 \in Msgs, m2 \in Msgs :
        (/\ variant = "index"
         /\ m1 # m2
         /\ h[m1].chat = h[m2].chat
         /\ Delivering(m1)
         /\ Delivering(m2)) =>
            /\ ENABLED (ReplyDone(m1, TRUE) /\ Delivering(m2)')
            /\ ENABLED (ReplyDone(m2, TRUE) /\ Delivering(m1)')

C16_TimerRace == [][C16_Step]_vars /\ []C16_EitherOrder

\* The timer of the first dispatch of a chat has fired, a second was admitted,
\* and both await the delivery of their answers.
C16_Witness ==
    /\ variant = "index"
    /\ \E m1 \in Msgs, m2 \in Msgs :
          /\ m1 < m2
          /\ h[m1].chat = h[m2].chat
          /\ h[m1].timer = "fired"
          /\ h[m1].pc = "replyAnswer"
          /\ h[m2].route = "dispatch"
          /\ h[m2].pc = "replyAnswer"

-----------------------------------------------------------------------------
\* The dispatch m was admitted and its handler has not ended.
IsOutstanding(m) ==
    h[m].route = "dispatch" /\ h[m].pc \in {"call", "replyAnswer", "replyErr"}

(* C17: in index.js, while an admitted dispatch is outstanding and its own *)
(* fallback timer has not fired, the flag of its chat is true.             *)
C17_HeldUntilOwnRelease ==
    \A m \in Msgs :
        (variant = "index" /\ IsOutstanding(m) /\ h[m].timer # "fired") =>
            BusyGet(busyByChat, h[m].chat)

-----------------------------------------------------------------------------
(* A burst of queries in one allowed chat: up to MaxBurst messages "chat x" *)
(* of the same sender, in index.js and part_002.  An armed timer fires     *)
(* unless it is cleared; a call may never return and a delivery may never  *)
(* end.                                                                    *)

InitBurst ==
    /\ variant \in {"index", "part_002"}
    /\ ALLOWED_CHATS = {"c1"}
    /\ ALLOWED_USERS = {}
    /\ busyByChat = EmptyMap
    /\ h = <<>>
    /\ raw = <<>>
    /\ tail = 0
    /\ cls = <<>>
    /\ err = <<>>
    /\ data = <<>>
    /\ out = <<>>

ReceiveQuery == Len(h) < MaxBurst /\ Handle("c1", "u1", TQuery)

NextBurst ==
    \/ ReceiveQuery
    \/ \E m \in 1..MaxBurst, res \in CallResults : CallReturns(m, res)
    \/ \E m \in 1..MaxBurst, ok \in BOOLEAN : ReplyDone(m, ok)
    \/ \E m \in 1..MaxBurst : TimerFires(m)

SpecBurst ==
    /\ InitBurst
    /\ [][NextBurst]_vars
    /\ \A m \in 1..MaxBurst : WF_vars(TimerFires(m))

-----------------------------------------------------------------------------
(* C18: in index.js, when every armed timer eventually fires unless it is  *)
(* cleared, a flag that is true is false again some time later, whether or *)
(* not the call returns.  In part_002, which has no timer, the flag is     *)
(* true as long as the call of a dispatch has not returned, and as long as *)
(* the flag is true every further query gets the busy notice and none is   *)
(* posted.                                                                 *)
C18_StuckStep ==
    (variant = "part_002" /\ BusyGet(busyByChat, "c1") /\ Len(h') = Len(h) + 1) =>
        /\ Arrived.route = "busy"
        /\ OnlyReply(Arrived, "busy")
        /\ NoCall(Arrived)
        /\ BusyGet(busyByChat', "c1")

C18_StuckWhileCalling ==
    \A m \in Msgs :
        (variant = "part_002" /\ h[m].route = "dispatch" /\ h[m].pc = "call") =>
            BusyGet(busyByChat, h[m].chat)

-----------------------------------------------------------------------------
\* The dispatches of the chat of m admitted after m.  Only an admission sets
\* the flag, so a flag that is true was set by the last dispatch admitted.
LaterDispatches(m) ==
    {n \in Msgs : n > m /\ h[n].chat = h[m].chat /\ h[n].route = "dispatch"}

(* C19: in index.js the timer of a dispatch is cleared when its handler    *)
(* ends: a timer that fires belongs to an outstanding dispatch, it never   *)
(* clears a flag that a later dispatch of the same chat has set, and only  *)
(* an outstanding dispatch has an armed timer.                             *)
C19_Step ==
    \A m \in Msgs :
        (variant = "index" /\ Fires(m)) =>
            /\ IsOutstanding(m)
            /\ ~(BusyGet(busyByChat, h[m].chat) /\ LaterDispatches(m) # {})

C19_ArmedWhileOutstanding ==
    \A m \in Msgs : h[m].timer = "armed" => (variant = "index" /\ IsOutstanding(m))

C19_TimerOwnDispatch ==
    /\ [][C19_Step]_vars
    /\ []C19_ArmedWhileOutstanding

-----------------------------------------------------------------------------
\* No fallback timer of chat c has fired after this step.
NoTimerFiredNext(c) == \A m \in 1..Len(h') : h'[m].chat = c => h'[m].timer # "fired"

\* The flag of chat c is true and this step makes it false.
Released(c) == BusyGet(busyByChat, c) /\ ~BusyGet(busyByChat', c)

\* A message that arrives in this step and is accepted gets the busy notice.
Rejected(c) ==
    \A u \in Users, t \in Texts :
        \/ ~Accepted(c, u, t)
        \/ /\ Arrived.route = "busy"
           /\ OnlyReply(Arrived, "busy")
           /\ NoCall(Arrived)
           /\ busyByChat' = busyByChat
        \/ ~Receive(c, u, t)

(* C20 as stated: in index.js and part_002 the flag of a chat is true      *)
(* while the reply of a dispatch of the chat is being delivered, the flag  *)
(* is released only by the end of a delivery, and an accepted message that *)
(* arrives during the delivery gets the busy notice.                       *)
C20_OriginalStep ==
    \A c \in Chats :
        /\ (HasBusyGate /\ Released(c)) =>
              \E m \in Msgs : h[m].chat = c /\ Delivering(m) /\ Ends(m)
        /\ (HasBusyGate /\ ArrivesIn(c) /\ \E m \in Msgs : h[m].chat = c /\ Delivering(m)) =>
              Rejected(c)

C20_ReleasedAfterDelivery == [][C20_OriginalStep]_vars

(* C20, amended: in part_002, and in index.js as long as no fallback timer *)
(* of the chat has fired, the flag of a chat is true while the reply of a  *)
(* dispatch of the chat is being delivered; the return of the call leaves  *)
(* the flag as it is; the flag is released only by the end of a delivery;  *)
(* and an accepted message that arrives during the delivery gets the busy  *)
(* notice.                                                                 *)
C20_Step ==
    /\ \A m \in Msgs :
          (HasBusyGate /\ h[m].pc = "call" /\ h'[m].pc # "call") =>
              busyByChat' = busyByChat
    /\ \A c \in Chats :
          /\ (HasBusyGate /\ Released(c) /\ NoTimerFiredNext(c)) =>
                \E m \in Msgs : h[m].chat = c /\ Delivering(m) /\ Ends(m)
          /\ (/\ HasBusyGate
              /\ ArrivesIn(c)
              /\ ~TimerFired(c)
              /\ \E m \in Msgs : h[m].chat = c /\ Delivering(m)) =>
                Rejected(c)

C20_HeldWhileDelivering ==
    \A m \in Msgs :
        (HasBusyGate /\ Delivering(m) /\ ~TimerFired(h[m].chat)) =>
            BusyGet(busyByChat, h[m].chat)

C20_ReleasedAfterDeliveryUnlessTimer ==
    /\ [][C20_Step]_vars
    /\ []C20_HeldWhileDelivering

\* The reply of a dispatch is being delivered, no timer of the chat has
\* fired, the flag is true, and a later message of the chat has the busy
\* notice on its way.
C20_Witness ==
    /\ HasBusyGate
    /\ \E m \in Msgs, n \in Msgs :
          /\ m < n
          /\ h[m].chat = h[n].chat
          /\ Delivering(m)
          /\ ~TimerFired(h[m].chat)
          /\ BusyGet(busyByChat, h[m].chat)
          /\ h[n].route = "busy"
          /\ h[n].pc = "reply"

-----------------------------------------------------------------------------
\* bot.catch is registered: an error thrown by a handler is logged by it and
\* goes no further.  index.js and part_002 register one, part_000 does not.
HasBotCatch == variant \in {"index", "part_002"}

\* The handler of message m has thrown and nothing in the bot has caught it.
Uncaught(m) == h[m].pc = "threw" /\ ~HasBotCatch

(* C21: whatever fails (the call, the delivery of the answer, the delivery *)
(* of the apology), nothing is retried, no request is posted again, and no *)
(* error leaves the handling of the message: an error the handler throws   *)
(* is caught by the bot.                                                   *)
C21_Step ==
    \A m \in Msgs :
        /\ h'[m].ncalls <= 1
        /\ h[m].pc # "typing" => h'[m].ncalls = h[m].ncalls
        /\ Len(h'[m].replies) > Len(h[m].replies) =>
              \A i \in 1..Len(h[m].replies) :
                  h[m].replies[i].kind # h'[m].replies[Len(h'[m].replies)].kind

C21_NotUncaught == \A m \in Msgs : h[m].route = "dispatch" => ~Uncaught(m)

C21_TerminalFailures ==
    /\ [][C21_Step]_vars
    /\ []C21_NotUncaught

-----------------------------------------------------------------------------
\* This step belongs to chat c: an update of c arrives, or a handler of c or
\* the timer of a dispatch of c takes a step.
Touches(c) ==
    \/ ArrivesIn(c)
    \/ \E m \in Msgs : h[m].chat = c /\ h'[m] # h[m]

\* The entry of chat d in the map is what it was.
FlagUnchanged(d) ==
    /\ (d \in DOMAIN busyByChat') = (d \in DOMAIN busyByChat)
    /\ d \in DOMAIN busyByChat => busyByChat'[d] = busyByChat[d]

\* A dispatch of a chat other than d is outstanding.
OtherOutstanding(d) == \E m \in Msgs : h[m].chat # d /\ IsOutstanding(m)

(* C22: in index.js and part_002, a step of chat c (an arrival that is     *)
(* admitted, rejected as busy or filtered, the return or failure of the    *)
(* call, the end of a delivery, the firing of the timer) leaves the flag   *)
(* of every other chat as it was; and what an accepted message of chat c   *)
(* gets depends on the flag of c alone, whatever dispatches of other chats *)
(* are outstanding: if c is idle its request is posted in the step of its  *)
(* arrival, and it gets the busy notice only if c itself is busy.          *)
C22_Step ==
    \A c \in Chats :
        /\ (HasBusyGate /\ Touches(c)) =>
              \A d \in Chats \ {c} : FlagUnchanged(d)
        /\ (HasBusyGate /\ ArrivesIn(c) /\ OtherOutstanding(c)) =>
              \A u \in Users, t \in Texts :
                  \/ ~Accepted(c, u, t)
                  \/ IF Idle(c)
                     THEN /\ Arrived.route = "dispatch"
                          /\ Arrived.pc = "call"
                          /\ Arrived.ncalls = 1
                     ELSE Arrived.route = "busy"
                  \/ ~Receive(c, u, t)

C22_Independent == [][C22_Step]_vars

\* The call of a dispatch of one chat has not returned and its chat is busy;
\* a message of another chat has been admitted since, and its call is in
\* flight too.
C22_Witness ==
    /\ HasBusyGate
    /\ \E m \in Msgs, n \in Msgs :
          /\ m < n
          /\ h[m].chat # h[n].chat
          /\ h[m].route = "dispatch" /\ h[m].pc = "call"
          /\ h[n].route = "dispatch" /\ h[n].pc = "call"
          /\ BusyGet(busyByChat, h[m].chat)
          /\ BusyGet(busyByChat, h[n].chat)

-----------------------------------------------------------------------------
(* The scan of the entries of a section: responses with one section whose  *)
(* output list has up to MaxEntries entries and no top-level text or       *)
(* message, in index.js, part_000 and part_001.                            *)

Zero == [type |-> "number", s |-> <<"0">>]

\* What results.message.text of an entry may be, and results.text, and content.
MessageTexts == {Undef, Null, Zero, Num, Str(<<>>), Str(<<" ">>), Str(<<"a">>)}
ResultTexts == {Undef, Str(<<" ">>), Str(<<"b">>)}
Contents == {Undef, Str(<<"raw">>)}

\* The entries: the three paths above, or one of the three paths between.
Entries ==
    {Entry(mt, rt, Undef, Undef, Undef, c) :
        mt \in MessageTexts, rt \in ResultTexts, c \in Contents} \cup
    {Entry(Undef, Undef, Str(<<"c">>), Undef, Undef, Undef),
     Entry(Str(<<>>), Undef, Undef, Str(<<"d">>), Undef, Undef),
     Entry(Undef, Undef, Num, Undef, Str(<<"e">>), Undef)}

EntryLists == UNION {[1..n -> Entries] : n \in 0..MaxEntries}

InitEntries ==
    /\ variant \in {"index", "part_000", "part_001"}
    /\ ALLOWED_CHATS = {}
    /\ ALLOWED_USERS = {}
    /\ busyByChat = EmptyMap
    /\ h = <<>>
    /\ raw = <<>>
    /\ tail = 0
    /\ cls = <<>>
    /\ err = <<>>
    /\ data \in {Doc(Arr(<<Section(Undef, Arr(l))>>), Undef, Undef) : l \in EntryLists}
    /\ out = <<>>

SpecEntries == InitEntries /\ [][Extract]_vars

\* The candidate fields of an entry in priority order, as far as the version
\* reads them: six in part_000, the first two in index.js and part_001.
Candidates(o) ==
    IF variant = "part_000"
    THEN <<o.mt, o.rt, o.ot, o.dt, o.dot, o.content>>
    ELSE <<o.mt, o.rt>>

\* The first candidate of an entry that is a non-blank string, or Undef.
FirstCandidate(o) ==
    LET c == Candidates(o)
        found == {k \in 1..Len(c) : IsText(c[k])}
    IN  IF found = {} THEN Undef ELSE c[CHOOSE k \in found : \A j \in found : k <= j]

\* The entries of the one section of the response.
EntriesOf(d) == d.outputs.s[1].outputs.s

\* What a version returns when it finds nothing.
Sentinel001 == IF variant = "part_000" THEN Null ELSE Placeholder

\* The first non-blank string among the candidates of the entries in order, or
\* the version's sentinel.
SpecScan(d) ==
    LET entries == EntriesOf(d)
        found == {k \in 1..Len(entries) : FirstCandidate(entries[k]) # Undef}
    IN  IF found = {} THEN Sentinel001
        ELSE FirstCandidate(entries[CHOOSE k \in found : \A j \in found : k <= j])

(* C23: within the section, extractAnswer returns the first non-blank       *)
(* string among the candidate fields of the entries, entries in order and   *)
(* fields in priority order: a candidate that is blank or not a string is   *)
(* passed over for the next candidate of the same entry.                    *)
C23_FirstNonBlankCandidate ==
    out # <<>> => out[1] = SpecScan(data)

=============================================================================
